---- MODULE Spec2Model ----
(***************************************************************************)
(* The notify component: NotifyEntity targets held by an EntityComponent,  *)
(* the send_message entity service that stamps the target's state and then *)
(* runs the target's send_message on the executor pool.                    *)
(*                                                                         *)
(* Threads: one event loop (it runs one coroutine at a time, up to its     *)
(* next await) and the executor's workers.  Every statement of             *)
(* _async_send_message is a step of its own, so that worker steps          *)
(* interleave with the statements of a dispatch.                           *)
(***************************************************************************)
EXTENDS Integers, Sequences, FiniteSets, TLC

\* ------------------------------------------------------------------ bounds
MaxDispatch == 2        \* service calls per process lifetime
MaxTime == 2            \* the last clock reading (microseconds) of the model
MicrosPerSecond == 2    \* microseconds per second, scaled down
PoolSize == 2           \* workers of the executor pool
MaxRestarts == 1        \* restarts of the process
MaxRegs == 2            \* entities added under one identity per process lifetime
MaxSteps == 5           \* calls of the config flow's user step

\* ------------------------------------------------------------------ values
Ids == {"a", "b"}

\* A state value: None (no timestamp; "unknown" in the state machine) or the
\* isoformat text of a timestamp, a tuple <<seconds>> or <<seconds, micros>>.
None == <<>>
NoTarget == "-"

\* datetime.isoformat(): the microsecond field is left out when it is zero.
isoformat(t) ==
    IF t % MicrosPerSecond = 0
    THEN <<t \div MicrosPerSecond>>
    ELSE <<t \div MicrosPerSecond, t % MicrosPerSecond>>

\* datetime.fromisoformat() of such a text, as a microsecond count.
fromisoformat(s) ==
    IF Len(s) = 1 THEN s[1] * MicrosPerSecond ELSE s[1] * MicrosPerSecond + s[2]

\* The arguments of a service call: message and title ("None" when left out).
CallArgs ==
    { [message |-> "hi", title |-> "None"],
      [message |-> "yo", title |-> "T"] }
NoArgs == [message |-> "None", title |-> "None"]

\* The hosts a user may enter in the Ender config flow; NoInput is
\* user_input = None, NoHost is ConfigFlow._host = None.
Hosts == {"h1", "h2"}
NoInput == "None"
NoHost == "None"

VARIABLES
    registry,      \* identities with a live entity in the EntityComponent
    last,          \* id -> NotifyEntity.__last_notified_isoformat
    cache,         \* id -> the cached_property slot of state: <<>> or <<value>>
    published,     \* id -> the state the state machine holds for the entity
    stored,        \* id -> the state RestoreEntity keeps across restarts
    now,           \* the last reading of dt_util.utcnow(), in microseconds
    pc,            \* dispatch -> its position
    target,        \* dispatch -> the identity it addresses
    args,          \* dispatch -> its arguments
    awaited,       \* dispatch -> whether the caller awaits completion
    stateArg,      \* dispatch -> the value passed to __set_state
    callTime,      \* dispatch -> the clock when the call started
    live,          \* dispatch -> the entity it resolved is still registered
    ent,           \* dispatch -> the entity object it resolved (0: none)
    ret,           \* dispatch -> what its caller has been told
    future,        \* dispatch -> the executor future of its job
    queue,         \* the executor's work queue
    running,       \* the jobs the workers are running
    sent,          \* dispatch -> the send_message calls made for it
    nResolved,     \* id -> dispatches that resolved the target
    nStamps,       \* id -> calls of __set_state on the target
    nSends,        \* id -> calls of send_message on the target
    restarts,      \* restarts so far
    gen,           \* id -> the entity object added last under it (0: none yet)
    torn,          \* id -> the entity objects removed, in the order of removal
    flowPc,        \* the Ender config flow: between steps, or inside setup()
    flowHost,      \* ConfigFlow._host
    flowResult,    \* what the last step of the flow returned
    ws,            \* the WebSocketApp of the EnderConnector of the running step
    nSteps,        \* calls of async_step_user so far
    hello          \* "Hello, Server!" messages sent by _on_open

vars == <<registry, last, cache, published, stored, now, pc, target, args,
          awaited, stateArg, callTime, live, ent, ret, future, queue, running,
          sent, nResolved, nStamps, nSends, restarts, gen, torn,
          flowPc, flowHost, flowResult, ws, nSteps, hello>>

entityVars == <<last, cache, published>>
dispatchVars == <<pc, target, args, awaited, stateArg, callTime, live, ent, ret>>
poolVars == <<future, queue, running, sent>>
countVars == <<nResolved, nStamps, nSends>>
regVars == <<gen, torn>>
flowVars == <<flowPc, flowHost, flowResult, ws, nSteps, hello>>
notifyVars == <<registry, entityVars, stored, now, dispatchVars, poolVars,
                countVars, restarts, regVars>>

\* The dispatch slots of the behaviour.
Dispatches == DOMAIN pc

\* The statements of _async_send_message that run on the event loop before
\* its await.
LoopPcs == {"assign", "write", "submit"}

\* The state after async_setup, with n dispatch slots: no entity yet, nothing
\* dispatched, an idle executor.
InitWith(n) ==
    /\ registry = {}
    /\ last = [i \in Ids |-> None]
    /\ cache = [i \in Ids |-> <<>>]
    /\ published = [i \in Ids |-> None]
    /\ stored = [i \in Ids |-> None]
    /\ now = 0
    /\ pc = [d \in 1 .. n |-> "idle"]
    /\ target = [d \in 1 .. n |-> NoTarget]
    /\ args = [d \in 1 .. n |-> NoArgs]
    /\ awaited = [d \in 1 .. n |-> FALSE]
    /\ stateArg = [d \in 1 .. n |-> None]
    /\ callTime = [d \in 1 .. n |-> 0]
    /\ live = [d \in 1 .. n |-> FALSE]
    /\ ent = [d \in 1 .. n |-> 0]
    /\ ret = [d \in 1 .. n |-> "none"]
    /\ future = [d \in 1 .. n |-> "none"]
    /\ queue = <<>>
    /\ running = {}
    /\ sent = [d \in 1 .. n |-> <<>>]
    /\ nResolved = [i \in Ids |-> 0]
    /\ nStamps = [i \in Ids |-> 0]
    /\ nSends = [i \in Ids |-> 0]
    /\ restarts = 0
    /\ gen = [i \in Ids |-> 0]
    /\ torn = [i \in Ids |-> <<>>]
    /\ flowPc = "waiting"
    /\ flowHost = NoHost
    /\ flowResult = "none"
    /\ ws = "none"
    /\ nSteps = 0
    /\ hello = 0

Init == InitWith(MaxDispatch)

\* A variant of LoopFree: send_message runs on the event loop's thread, so no
\* callback starts while a send is running.
LoopHeldBySend ==
    /\ \A d \in Dispatches : pc[d] \notin LoopPcs
    /\ running = {}

\* A variant of LoopFree: dispatches interleave statement by statement, as if
\* _async_send_message awaited before its stamp.
LoopShared == TRUE

\* The event loop runs one coroutine at a time: a new callback starts only
\* when no dispatch is between its first statement and its await.
LoopFree == \A d \in Dispatches : pc[d] \notin LoopPcs

\* dt_util.utcnow(): what the clock may show at a reading, never earlier
\* than at the reading before.
UtcNow == {t \in {now, now + 1} : t <= MaxTime}

\* ------------------------------------------------------- NotifyEntity state
\* The cached property state: the cached value if there is one, else
\* __last_notified_isoformat (and the read fills the cache).
state(i) == IF cache[i] # <<>> THEN cache[i][1] ELSE last[i]

\* A variant of CacheDeleted: __set_state leaves the cached state in place.
CacheKept(i) == cache[i]

\* __set_state: del self.state empties the cache slot (an empty slot raises
\* AttributeError, which is swallowed).
CacheDeleted(i) == <<>>

\* A new NotifyEntity: the class attribute __last_notified_isoformat = None;
\* the class defines no hook that reads the stored state back.
InitialLastNotified(i) == None

\* A read of the state property from a thread other than the event loop's (a
\* worker, or any synchronous caller): it can fall between any two statements
\* of the event loop, and like every read it leaves the value in the cache.
ThreadRead(i) ==
    /\ i \in registry
    /\ cache[i] = <<>>
    /\ cache' = [cache EXCEPT ![i] = <<state(i)>>]
    /\ UNCHANGED <<registry, last, published, stored, now, dispatchVars,
                   poolVars, countVars, restarts, regVars, flowVars>>

\* ------------------------------------------------------------ the registry
\* A variant of Resolves: every identity is taken to name an entity.
ResolvesAny(i) == TRUE

\* Which entity the entity service resolves an identity to.
Resolves(i) == i \in registry

\* A variant of ResolvedEntity: the lookup gives the entity added first under
\* the identity.
ResolvedFirst(i) == 1

\* The entity object the entity service finds under a registered identity:
\* the one added last.
ResolvedEntity(i) == gen[i]

\* A variant of TornDown: the entity in place is dropped without its teardown.
NotTornDown(i) == torn[i]

\* The teardown of the entity in place under an identity.
TornDown(i) == Append(torn[i], gen[i])

\* Adding an entity: a new object, whose state is written once it is added.
Register(i) ==
    /\ LoopFree
    /\ i \notin registry
    /\ gen[i] < MaxRegs
    /\ gen' = [gen EXCEPT ![i] = @ + 1]
    /\ registry' = registry \cup {i}
    /\ last' = [last EXCEPT ![i] = InitialLastNotified(i)]
    /\ cache' = [cache EXCEPT ![i] = <<InitialLastNotified(i)>>]
    /\ published' = [published EXCEPT ![i] = InitialLastNotified(i)]
    /\ UNCHANGED <<stored, now, dispatchVars, poolVars, countVars, restarts,
                   torn, flowVars>>

\* Removing an entity: its state leaves the state machine; dispatches that
\* resolved it keep running.
Unregister(i) ==
    /\ LoopFree
    /\ i \in registry
    /\ registry' = registry \ {i}
    /\ published' = [published EXCEPT ![i] = None]
    /\ last' = [last EXCEPT ![i] = None]
    /\ cache' = [cache EXCEPT ![i] = <<>>]
    /\ live' = [d \in Dispatches |-> live[d] /\ target[d] # i]
    /\ torn' = [torn EXCEPT ![i] = TornDown(i)]
    /\ UNCHANGED <<stored, now, pc, target, args, awaited, stateArg, callTime,
                   ent, ret, poolVars, countVars, restarts, gen, flowVars>>

\* Adding an entity under an identity that has one: the entity in place is
\* torn down first, then the new object takes its place, with the state of a
\* new entity; dispatches that resolved the old one keep running.
RegisterAgain(i) ==
    /\ LoopFree
    /\ i \in registry
    /\ gen[i] < MaxRegs
    /\ torn' = [torn EXCEPT ![i] = TornDown(i)]
    /\ gen' = [gen EXCEPT ![i] = @ + 1]
    /\ last' = [last EXCEPT ![i] = InitialLastNotified(i)]
    /\ cache' = [cache EXCEPT ![i] = <<InitialLastNotified(i)>>]
    /\ published' = [published EXCEPT ![i] = InitialLastNotified(i)]
    /\ live' = [d \in Dispatches |-> live[d] /\ target[d] # i]
    /\ UNCHANGED <<registry, stored, now, pc, target, args, awaited, stateArg,
                   callTime, ent, ret, poolVars, countVars, restarts,
                   flowVars>>

\* ------------------------------------------------------ the dispatch service
\* A variant of NextPc: the send is submitted before the state is written.
NextPcSubmitFirst(p) ==
    CASE p = "set_state" -> "assign"
      [] p = "assign" -> "submit"
      [] p = "submit" -> "write"
      [] p = "write" -> "await"

\* The statements of _async_send_message in program order:
\* __set_state (its del, then its assignment), async_write_ha_state, and the
\* await of async_send_message.
NextPc(p) ==
    CASE p = "set_state" -> "assign"
      [] p = "assign" -> "write"
      [] p = "write" -> "submit"
      [] p = "submit" -> "await"

\* The send_message call a job makes: partial(self.send_message, message,
\* title, recipients, data).
SendCall(d) == <<args[d].message, args[d].title>>

Job(d) == [d |-> d, target |-> target[d], call |-> SendCall(d)]

\* What a caller that does not await completion is told at the hand-off.
ReturnAtHandOff(d) == IF awaited[d] THEN "none" ELSE "handed_off"

\* The service call: resolve the identity (an unknown identity is refused
\* before anything else happens), then enter _async_send_message:
\* __set_state(dt_util.utcnow().isoformat()) evaluates its argument, the
\* clock showing t, and deletes the cached state.
Call(d, i, a, w, t) ==
    /\ pc[d] = "idle"
    /\ IF d = 1 THEN TRUE ELSE pc[d - 1] # "idle"
    /\ LoopFree
    /\ target' = [target EXCEPT ![d] = i]
    /\ args' = [args EXCEPT ![d] = a]
    /\ awaited' = [awaited EXCEPT ![d] = w]
    /\ IF Resolves(i)
       THEN /\ pc' = [pc EXCEPT ![d] = NextPc("set_state")]
            /\ live' = [live EXCEPT ![d] = TRUE]
            /\ ent' = [ent EXCEPT ![d] = ResolvedEntity(i)]
            /\ nResolved' = [nResolved EXCEPT ![i] = @ + 1]
            /\ now' = t
            /\ callTime' = [callTime EXCEPT ![d] = t]
            /\ stateArg' = [stateArg EXCEPT ![d] = isoformat(t)]
            /\ cache' = [cache EXCEPT ![i] = CacheDeleted(i)]
            /\ UNCHANGED ret
       ELSE /\ pc' = [pc EXCEPT ![d] = "notfound"]
            /\ ret' = [ret EXCEPT ![d] = "TargetNotFound"]
            /\ t = now
            /\ UNCHANGED <<live, ent, nResolved, now, callTime, stateArg, cache>>
    /\ UNCHANGED <<registry, last, published, stored, poolVars,
                   nStamps, nSends, restarts, regVars, flowVars>>

\* __set_state: self.__last_notified_isoformat = state.
SetStateAssign(d) ==
    /\ pc[d] = "assign"
    /\ last' = [last EXCEPT ![target[d]] = stateArg[d]]
    /\ nStamps' = [nStamps EXCEPT ![target[d]] = @ + 1]
    /\ pc' = [pc EXCEPT ![d] = NextPc("assign")]
    /\ UNCHANGED <<registry, cache, published, stored, now, target, args,
                   awaited, stateArg, callTime, live, ent, ret, poolVars,
                   nResolved, nSends, restarts, regVars, flowVars>>

\* async_write_ha_state(): read the state property and publish it.
WriteState(d) ==
    /\ pc[d] = "write"
    /\ published' = [published EXCEPT ![target[d]] = state(target[d])]
    /\ cache' = [cache EXCEPT ![target[d]] = <<state(target[d])>>]
    /\ pc' = [pc EXCEPT ![d] = NextPc("write")]
    /\ UNCHANGED <<registry, last, stored, now, target, args, awaited,
                   stateArg, callTime, live, ent, ret, poolVars, countVars,
                   restarts, regVars, flowVars>>

\* A variant of Offload: send_message is called on the event loop, and is
\* over when async_send_message gets to its await.
OffloadInline(d) ==
    /\ sent' = [sent EXCEPT ![d] = Append(@, SendCall(d))]
    /\ nSends' = [nSends EXCEPT ![target[d]] = @ + 1]
    /\ \E o \in {"ok", "raised"} : future' = [future EXCEPT ![d] = o]
    /\ UNCHANGED <<queue, running>>

\* async_send_message: hass.async_add_executor_job(partial(send_message, ...))
\* puts the job on the executor's queue and gives back its future.
Offload(d) ==
    /\ queue' = Append(queue, Job(d))
    /\ future' = [future EXCEPT ![d] = "pending"]
    /\ UNCHANGED <<running, sent, nSends>>

\* await self.async_send_message(**kwargs): submit, then suspend on the future.
Submit(d) ==
    /\ pc[d] = "submit"
    /\ Offload(d)
    /\ pc' = [pc EXCEPT ![d] = NextPc("submit")]
    /\ ret' = [ret EXCEPT ![d] = ReturnAtHandOff(d)]
    /\ UNCHANGED <<registry, entityVars, stored, now, target, args, awaited,
                   stateArg, callTime, live, ent, nResolved, nStamps,
                   restarts, regVars, flowVars>>

\* ------------------------------------------------------------ the executor
\* A variant of Requeued: a job whose send_message raised is run again.
RequeuedOnFailure(j, outcome) == IF outcome = "raised" THEN <<j>> ELSE <<>>

\* A failed job is not put back on the queue.
Requeued(j, outcome) == <<>>

\* A free worker takes the oldest job and calls send_message.
StartSend ==
    /\ queue # <<>>
    /\ Cardinality(running) < PoolSize
    /\ LET j == Head(queue) IN
        /\ queue' = Tail(queue)
        /\ running' = running \cup {j}
        /\ sent' = [sent EXCEPT ![j.d] = Append(@, j.call)]
        /\ nSends' = [nSends EXCEPT ![j.target] = @ + 1]
    /\ UNCHANGED <<registry, entityVars, stored, now, dispatchVars, future,
                   nResolved, nStamps, restarts, regVars, flowVars>>

\* A variant of MayFinish: the sends end in the order of their submission.
MayFinishInOrder(j) == j \in running /\ \A k \in running : k.d >= j.d

\* A send that is running ends when its own send_message call does, whatever
\* the other workers are running.
MayFinish(j) == j \in running

\* send_message returns or raises; the worker sets the job's future.
FinishSend(j, outcome) ==
    /\ MayFinish(j)
    /\ running' = running \ {j}
    /\ future' = [future EXCEPT ![j.d] = outcome]
    /\ queue' = queue \o Requeued(j, outcome)
    /\ UNCHANGED <<registry, entityVars, stored, now, dispatchVars, sent,
                   countVars, restarts, regVars, flowVars>>

\* A variant of LastAfterSend: a failed send takes the stamp back.
LastRolledBack(d) ==
    IF future[d] = "raised" THEN [last EXCEPT ![target[d]] = None] ELSE last

\* A variant of RegistryAfterSend: a failed send drops the target.
RegistryDropsFailed(d) ==
    IF future[d] = "raised" THEN registry \ {target[d]} ELSE registry

\* A variant of LastAfterSend: the stamp is made again, with the time of the
\* completion, when the send is over.
LastStampedAtCompletion(d) == [last EXCEPT ![target[d]] = isoformat(now)]

\* What the end of a dispatch leaves of the entity's state and the registry:
\* nothing after the await touches them.
LastAfterSend(d) == last
RegistryAfterSend(d) == registry

\* A variant of AwaitResult: what send_message raised is logged and the call
\* returns normally.
AwaitResultSwallowed(d) == "ok"

\* What the await gives the coroutine, and through it a caller that awaits
\* completion: the return of send_message, or the exception it raised.
AwaitResult(d) == IF future[d] = "ok" THEN "ok" ELSE "SendFailure"

\* The event loop resumes the coroutine: the await returns, or raises what
\* send_message raised.
Resume(d) ==
    /\ pc[d] = "await"
    /\ LoopFree
    /\ future[d] \in {"ok", "raised"}
    /\ pc' = [pc EXCEPT ![d] = IF future[d] = "ok" THEN "done" ELSE "raised"]
    /\ ret' = [ret EXCEPT ![d] = IF ~awaited[d] THEN @ ELSE AwaitResult(d)]
    /\ last' = LastAfterSend(d)
    /\ registry' = RegistryAfterSend(d)
    /\ UNCHANGED <<cache, published, stored, now, target, args, awaited,
                   stateArg, callTime, live, ent, poolVars, countVars,
                   restarts, regVars, flowVars>>

\* A variant of QueueAfterAbandon: the job of an abandoned dispatch is taken
\* off the queue if no worker has started it.
QueueWithdrawn(d) == SelectSeq(queue, LAMBDA j : j.d # d)

\* What abandoning the completion-await leaves of the executor's queue: the
\* submitted send is left to finish or fail on its own.
QueueAfterAbandon(d) == queue

\* The deadline a caller has put on its completion-await expires while the
\* send is not over: the caller takes the dispatch as failed and the await is
\* given up; the target has no code that runs then.
Abandon(d) ==
    /\ LoopFree
    /\ pc[d] = "await"
    /\ awaited[d]
    /\ future[d] = "pending"
    /\ pc' = [pc EXCEPT ![d] = "cancelled"]
    /\ ret' = [ret EXCEPT ![d] = "DeadlineExpired"]
    /\ queue' = QueueAfterAbandon(d)
    /\ UNCHANGED <<registry, entityVars, stored, now, target, args, awaited,
                   stateArg, callTime, live, ent, future, running, sent,
                   countVars, restarts, regVars, flowVars>>

\* ---------------------------------------------------------------- restart
\* The process stops and starts again: RestoreEntity has saved the states,
\* the entities, the executor and every dispatch in flight are gone.
Restart ==
    /\ LoopFree
    /\ restarts < MaxRestarts
    /\ restarts' = restarts + 1
    /\ stored' = [i \in Ids |-> IF i \in registry THEN published[i] ELSE stored[i]]
    /\ registry' = {}
    /\ last' = [i \in Ids |-> None]
    /\ cache' = [i \in Ids |-> <<>>]
    /\ published' = [i \in Ids |-> None]
    /\ pc' = [d \in Dispatches |-> IF pc[d] = "idle" THEN "idle" ELSE "gone"]
    /\ target' = [d \in Dispatches |-> NoTarget]
    /\ args' = [d \in Dispatches |-> NoArgs]
    /\ awaited' = [d \in Dispatches |-> FALSE]
    /\ stateArg' = [d \in Dispatches |-> None]
    /\ callTime' = [d \in Dispatches |-> 0]
    /\ live' = [d \in Dispatches |-> FALSE]
    /\ ent' = [d \in Dispatches |-> 0]
    /\ gen' = [i \in Ids |-> 0]
    /\ torn' = [i \in Ids |-> <<>>]
    /\ ret' = [d \in Dispatches |-> "none"]
    /\ future' = [d \in Dispatches |-> "none"]
    /\ queue' = <<>>
    /\ running' = {}
    /\ sent' = [d \in Dispatches |-> <<>>]
    /\ nResolved' = [i \in Ids |-> 0]
    /\ nStamps' = [i \in Ids |-> 0]
    /\ nSends' = [i \in Ids |-> 0]
    /\ UNCHANGED <<now, flowVars>>

\* ------------------------------------------------- the Ender config flow
\* A variant of StepResult: a step that was given a host ends the flow with a
\* config entry.
StepResultCreatesEntry(u) == IF u = NoInput THEN "form_user" ELSE "create_entry"

\* What async_step_user returns: self.async_show_form(step_id="user", ...),
\* with and without input.
StepResult(u) == "form_user"

\* async_step_user(user_input) is called (by the flow manager at the start
\* of the flow with None, afterwards with what the user submitted).  Without
\* input it returns at once; with input it stores the host and calls
\* EnderConnector().setup(host), which builds the WebSocketApp and enters
\* run_forever().
StepUser(u) ==
    /\ flowPc = "waiting"
    /\ nSteps < MaxSteps
    /\ nSteps' = nSteps + 1
    /\ IF u = NoInput
       THEN /\ flowResult' = StepResult(u)
            /\ UNCHANGED <<flowPc, flowHost, ws, hello>>
       ELSE /\ flowHost' = u
            /\ ws' = "connecting"
            /\ flowPc' = "setup"
            /\ UNCHANGED <<flowResult, hello>>
    /\ UNCHANGED notifyVars

\* run_forever(): the connection opens and _on_open sends its greeting.
WsOpen ==
    /\ flowPc = "setup"
    /\ ws = "connecting"
    /\ ws' = "open"
    /\ hello' = hello + 1
    /\ UNCHANGED <<flowPc, flowHost, flowResult, nSteps, notifyVars>>

\* run_forever() ends: the connection could not be made, or it was closed.
\* Nothing makes this happen; a server that keeps the connection keeps the
\* step inside setup().
WsEnd ==
    /\ flowPc = "setup"
    /\ ws \in {"connecting", "open"}
    /\ ws' = "closed"
    /\ UNCHANGED <<flowPc, flowHost, flowResult, nSteps, hello, notifyVars>>

\* setup() has returned: the step shows the form again; the connector, a
\* local of the step, is dropped.
StepReturn ==
    /\ flowPc = "setup"
    /\ ws = "closed"
    /\ flowResult' = StepResult(flowHost)
    /\ flowPc' = "waiting"
    /\ ws' = "none"
    /\ UNCHANGED <<flowHost, nSteps, hello, notifyVars>>

\* ------------------------------------------------------- the specifications
LoopStep(d) ==
    \/ SetStateAssign(d)
    \/ WriteState(d)
    \/ Submit(d)
    \/ Resume(d)

Next ==
    \/ \E i \in Ids : Register(i)
    \/ \E d \in Dispatches, i \in Ids, a \in CallArgs, w \in BOOLEAN,
          t \in UtcNow : Call(d, i, a, w, t)
    \/ \E d \in Dispatches : LoopStep(d)
    \/ StartSend
    \/ \E j \in running, o \in {"ok", "raised"} : FinishSend(j, o)

\* One process lifetime in which the entities stay.
Spec == Init /\ [][Next]_vars

\* Entities come and go, and the process is restarted.
NextLifecycle ==
    \/ Next
    \/ \E i \in Ids : Unregister(i)
    \/ Restart

SpecRestart == Init /\ [][NextLifecycle]_vars

\* The registry at work: entities come, are replaced and go while calls, all
\* awaited, with the same arguments and at one clock reading, are made and run.
NextRegistry ==
    \/ \E i \in Ids : Register(i)
    \/ \E i \in Ids : RegisterAgain(i)
    \/ \E i \in Ids : Unregister(i)
    \/ \E d \in Dispatches, i \in Ids :
          Call(d, i, [message |-> "hi", title |-> "None"], TRUE, now)
    \/ \E d \in Dispatches : LoopStep(d)
    \/ StartSend
    \/ \E j \in running, o \in {"ok", "raised"} : FinishSend(j, o)

SpecRegistry == Init /\ [][NextRegistry]_vars

\* The executor with a target whose send_message blocks: one dispatch more
\* than the pool has workers, none awaited by its caller, the event loop and
\* the workers scheduled fairly, every send of another target returning or
\* raising in the end.
BlockedTarget == "a"
PoolSlots == 1 .. (PoolSize + 1)
InitPool == InitWith(PoolSize + 1)

NextPool ==
    \/ \E i \in Ids : Register(i)
    \/ \E d \in PoolSlots, i \in Ids :
          Call(d, i, [message |-> "hi", title |-> "None"], FALSE, now)
    \/ \E d \in PoolSlots : LoopStep(d)
    \/ StartSend
    \/ \E j \in running, o \in {"ok", "raised"} : FinishSend(j, o)

FinishUnblocked ==
    \E j \in running, o \in {"ok", "raised"} :
        j.target # BlockedTarget /\ FinishSend(j, o)

Fairness ==
    /\ \A d \in PoolSlots : WF_vars(LoopStep(d))
    /\ WF_vars(StartSend)
    /\ WF_vars(FinishUnblocked)

SpecFair == InitPool /\ [][NextPool]_vars /\ Fairness

\* Entities are added, also under identities that have one, and never removed
\* otherwise.
NextReplace ==
    \/ \E i \in Ids : Register(i)
    \/ \E i \in Ids : RegisterAgain(i)
    \/ \E d \in Dispatches, i \in Ids :
          Call(d, i, [message |-> "hi", title |-> "None"], FALSE, now)
    \/ \E d \in Dispatches : LoopStep(d)
    \/ StartSend
    \/ \E j \in running, o \in {"ok", "raised"} : FinishSend(j, o)

SpecReplace == Init /\ [][NextReplace]_vars

\* The dispatch service with other threads reading the state of the entities.
NextThreads ==
    \/ \E i \in Ids : Register(i)
    \/ \E d \in Dispatches, i \in Ids, t \in UtcNow :
          Call(d, i, [message |-> "hi", title |-> "None"], FALSE, t)
    \/ \E d \in Dispatches : LoopStep(d)
    \/ \E i \in Ids : ThreadRead(i)
    \/ StartSend
    \/ \E j \in running, o \in {"ok", "raised"} : FinishSend(j, o)

SpecThreads == Init /\ [][NextThreads]_vars

\* Callers that do not await completion, calling one after the other as the
\* clock goes on, all with the same arguments.
NextConcurrent ==
    \/ \E i \in Ids : Register(i)
    \/ \E d \in Dispatches, i \in Ids, t \in UtcNow :
          Call(d, i, [message |-> "hi", title |-> "None"], FALSE, t)
    \/ \E d \in Dispatches : LoopStep(d)
    \/ StartSend
    \/ \E j \in running, o \in {"ok", "raised"} : FinishSend(j, o)

SpecConcurrent == Init /\ [][NextConcurrent]_vars

\* The Ender config flow, its user step called again and again.
NextEnder ==
    \/ \E u \in Hosts \cup {NoInput} : StepUser(u)
    \/ WsOpen
    \/ WsEnd
    \/ StepReturn

SpecEnder == Init /\ [][NextEnder]_vars

\* Callers that await completion under a deadline of their own.
NextDeadline ==
    \/ \E i \in Ids : Register(i)
    \/ \E d \in Dispatches, i \in Ids, t \in UtcNow :
          Call(d, i, [message |-> "hi", title |-> "None"], TRUE, t)
    \/ \E d \in Dispatches : LoopStep(d)
    \/ \E d \in Dispatches : Abandon(d)
    \/ StartSend
    \/ \E j \in running, o \in {"ok", "raised"} : FinishSend(j, o)

SpecDeadline == Init /\ [][NextDeadline]_vars

\* ------------------------------------------------------------------ claims
Stamped(d) == pc[d] \in {"write", "submit", "await", "done", "raised"}
Submitted(d) == future[d] # "none"

\* A later dispatch to the target of d has started.
Overtaken(d) ==
    \E e \in Dispatches :
        e > d /\ target[e] = target[d] /\ pc[e] \notin {"idle", "notfound"}

\* C1: whenever the send of a dispatch has been submitted to the pool (it is
\* queued, running or finished) and the entity it resolved is still
\* registered, the entity holds a timestamp and the published state is a
\* timestamp not earlier than the clock at the start of that dispatch.
C1_StampPublishedBeforeSend ==
    \A d \in Dispatches :
        (Submitted(d) /\ live[d]) =>
            /\ last[target[d]] # None
            /\ published[target[d]] # None
            /\ fromisoformat(published[target[d]]) >= callTime[d]

\* C1 happens: a send is running, after a call made at a time past 0, and the
\* published state is the stamp of that dispatch.
C1_Witness ==
    \E d \in Dispatches :
        /\ Job(d) \in running
        /\ live[d]
        /\ callTime[d] > 0
        /\ published[target[d]] = stateArg[d]

\* C2: a caller that does not await completion is told "handed off" by the
\* step that submits the send, when the send has neither started nor
\* finished, and has been told so whenever its dispatch is suspended on the
\* send; a caller that awaits completion is answered only once the send is
\* over.
C2_ReturnsAtHandOff ==
    /\ [](\A d \in Dispatches :
            /\ (pc[d] = "await" /\ ~awaited[d]) => ret[d] = "handed_off"
            /\ (awaited[d] /\ ret[d] \in {"ok", "SendFailure"})
                   => future[d] \in {"ok", "raised"})
    /\ [][\A d \in Dispatches :
            (ret[d] = "none" /\ ret'[d] = "handed_off") =>
                /\ future'[d] = "pending"
                /\ sent'[d] = <<>>
                /\ queue' = Append(queue, Job(d))]_vars

\* C2 happens: a dispatch has returned to its caller and its send is running.
C2_Witness ==
    \E d \in Dispatches :
        /\ ret[d] = "handed_off"
        /\ pc[d] = "await"
        /\ Job(d) \in running
        /\ future[d] = "pending"

\* C3: an entity that is registered gets the state stored for its identity
\* (the state recorded before the restart, or none) as its published state.
C3_RestoredOnRegister ==
    [][\A i \in Ids :
        (i \notin registry /\ i \in registry') => published'[i] = stored[i]]_vars

\* C4: a call whose identity is not registered is answered TargetNotFound and
\* changes no entity state, not the registry and nothing of the executor; no
\* send is ever made for it.
C4_UnknownTargetRefused ==
    /\ [](\A d \in Dispatches :
            pc[d] = "notfound" =>
                /\ ret[d] = "TargetNotFound"
                /\ sent[d] = <<>>
                /\ future[d] = "none")
    /\ [][\A d \in Dispatches :
            (pc[d] = "idle" /\ pc'[d] # "idle" /\ target'[d] \notin registry) =>
                /\ pc'[d] = "notfound"
                /\ ret'[d] = "TargetNotFound"
                /\ <<last, cache, published>>' = <<last, cache, published>>
                /\ registry' = registry
                /\ <<future, queue, running, sent>>' = <<future, queue, running, sent>>
                /\ <<nResolved, nStamps, nSends>>' = <<nResolved, nStamps, nSends>>]_vars

\* C4 happens: a call was refused while another target was registered and
\* held a timestamp.
C4_Witness ==
    \E d \in Dispatches :
        /\ pc[d] = "notfound"
        /\ target[d] \notin registry
        /\ \E i \in registry : published[i] # None

\* C5: once a dispatch has stamped and published (its send submitted), the
\* entity keeps that stamp, as attribute, as state property and as published
\* state, whatever the send does, until a later dispatch to the same target
\* starts or the entity is removed.
C5_StampSurvivesFailure ==
    \A d \in Dispatches :
        (Submitted(d) /\ live[d] /\ ~Overtaken(d)) =>
            /\ last[target[d]] = stateArg[d]
            /\ state(target[d]) = stateArg[d]
            /\ published[target[d]] = stateArg[d]

\* C5 happens: a send has raised, the dispatch has ended with that error, and
\* the stamp of the dispatch is still the state.
C5_Witness ==
    \E d \in Dispatches :
        /\ pc[d] = "raised"
        /\ live[d]
        /\ ~Overtaken(d)
        /\ published[target[d]] = stateArg[d]
        /\ callTime[d] > 0

\* The dispatches of a target that got past the registry.
ResolvedFor(i) ==
    {d \in Dispatches : target[d] = i /\ pc[d] \notin {"idle", "notfound"}}

\* No dispatch to the target is between its call and the end of its send.
Quiet(i) ==
    \A d \in ResolvedFor(i) : Stamped(d) /\ future[d] \in {"ok", "raised"}

\* C6: for every dispatch at most one send_message call is made, it carries
\* the arguments of that dispatch, and a dispatch whose send is over had
\* exactly one; per target, the calls of send_message never exceed the stamps,
\* the stamps never exceed the resolved dispatches, and all three counts are
\* the number of resolved dispatches once no dispatch to the target is under
\* way.
C6_OneSendPerDispatch ==
    /\ \A d \in Dispatches :
        /\ Len(sent[d]) <= 1
        /\ sent[d] # <<>> => sent[d][1] = <<args[d].message, args[d].title>>
        /\ future[d] \in {"ok", "raised"} => Len(sent[d]) = 1
        /\ pc[d] \in {"idle", "notfound"} => sent[d] = <<>>
    /\ \A i \in Ids :
        /\ nSends[i] <= nStamps[i]
        /\ nStamps[i] <= nResolved[i]
        /\ nResolved[i] = Cardinality(ResolvedFor(i))
        /\ Quiet(i) => (nSends[i] = nResolved[i] /\ nStamps[i] = nResolved[i])

\* C6 happens: two dispatches with the same arguments to one target are over,
\* one of them failed, and the target got two sends and two stamps.
C6_Witness ==
    \E i \in Ids :
        /\ Quiet(i)
        /\ nSends[i] = 2
        /\ nStamps[i] = 2
        /\ \E d, e \in ResolvedFor(i) :
            /\ d # e
            /\ args[d] = args[e]
            /\ future[d] = "raised"
            /\ sent[d] = sent[e]

\* C7: the step in which a send raises, and the step in which its dispatch
\* ends with that error, change neither the registry nor any entity's state
\* nor anything of another dispatch; and while one send has raised, a running
\* send of another target can still return.
C7_FailureIsLocal ==
    /\ [](\A d, e \in Dispatches :
            (future[d] = "raised" /\ target[e] # target[d] /\ Job(e) \in running)
                => ENABLED FinishSend(Job(e), "ok"))
    /\ [][\A d \in Dispatches :
            (\/ future[d] # "raised" /\ future'[d] = "raised"
             \/ pc[d] # "raised" /\ pc'[d] = "raised") =>
                /\ registry' = registry
                /\ <<last, cache, published>>' = <<last, cache, published>>
                /\ \A e \in Dispatches \ {d} :
                    /\ <<pc[e], ret[e], future[e], sent[e]>>'
                           = <<pc[e], ret[e], future[e], sent[e]>>
                    /\ (Job(e) \in running) => (Job(e) \in running')]_vars

\* C7 happens: the dispatch to one target has ended with the error of its
\* send, both targets are registered, and the send dispatched to the other
\* target meanwhile is still running.
C7_Witness ==
    \E d, e \in Dispatches :
        /\ pc[d] = "raised"
        /\ target[e] # target[d]
        /\ Job(e) \in running
        /\ registry = Ids

\* C9: the timestamp an entity holds and the one published for it never
\* decrease while the entity stays registered, and of two dispatches to one
\* entity the one called later stamps later and with a timestamp that is not
\* earlier.
C9_StampsInOrder ==
    /\ [](\A d, e \in Dispatches :
            (d < e /\ target[d] = target[e] /\ live[d] /\ live[e]) =>
                /\ Stamped(e) => Stamped(d)
                /\ fromisoformat(stateArg[d]) <= fromisoformat(stateArg[e]))
    /\ [][\A i \in Ids :
            (i \in registry /\ i \in registry') =>
                /\ last[i] # None =>
                    /\ last'[i] # None
                    /\ fromisoformat(last'[i]) >= fromisoformat(last[i])
                /\ published[i] # None =>
                    /\ published'[i] # None
                    /\ fromisoformat(published'[i]) >= fromisoformat(published[i])]_vars

\* C9 happens: a caller that did not await got its first dispatch back, then
\* dispatched to the same target at a later time, and the second stamp is
\* published.
C9_Witness ==
    \E d, e \in Dispatches :
        /\ d < e
        /\ target[d] = target[e]
        /\ live[d] /\ live[e]
        /\ ret[d] = "handed_off"
        /\ callTime[d] < callTime[e]
        /\ published[target[e]] = stateArg[e]

\* C10: while an entity stays registered its published state and its
\* attribute, once present, stay present; and a registered entity whose
\* published state is absent has had no dispatch reach its publishing step
\* (whose attribute is absent: its stamping step).
C10_NeverBackToIdle ==
    /\ [](\A d \in Dispatches :
            live[d] =>
                /\ pc[d] \in {"write", "submit", "await", "done", "raised"}
                       => last[target[d]] # None
                /\ pc[d] \in {"submit", "await", "done", "raised"}
                       => published[target[d]] # None)
    /\ [][\A i \in Ids :
            (i \in registry /\ i \in registry') =>
                /\ last[i] # None => last'[i] # None
                /\ published[i] # None => published'[i] # None]_vars

\* C10 happens: an entity that was registered with no state has been stamped,
\* its send has failed, and it still publishes a timestamp.
C10_Witness ==
    \E d \in Dispatches :
        /\ live[d]
        /\ pc[d] = "raised"
        /\ published[target[d]] # None
        /\ \E e \in Dispatches : e # d /\ live[e] /\ target[e] = target[d] /\ pc[e] = "done"

\* Every worker of the pool is held by a send of the blocked target.
PoolExhausted ==
    Cardinality({j \in running : j.target = BlockedTarget}) = PoolSize

\* C8, as claimed: a dispatch to another target than the blocked one gets its
\* send completed, however many sends of the blocked target are outstanding.
C8_AlwaysCompletes ==
    \A d \in PoolSlots :
        (pc[d] = "assign" /\ target[d] # BlockedTarget)
            ~> (future[d] \in {"ok", "raised"})

\* C8, amended: a dispatch to another target than the blocked one is always
\* stamped, published and handed off, and it ends with its send completed
\* unless the blocked sends come to hold every worker of the pool.
C8_CompletesWhileWorkerFree ==
    \A d \in PoolSlots :
        /\ (pc[d] = "assign" /\ target[d] # BlockedTarget)
               ~> (Submitted(d) /\ published[target[d]] # None)
        /\ (pc[d] = "assign" /\ target[d] # BlockedTarget)
               ~> (pc[d] \in {"done", "raised"} \/ PoolExhausted)

\* C8 happens: a send of the blocked target is running and has not returned,
\* and a dispatch to the other target, called after it, has ended with its
\* send completed.
C8_Witness ==
    \E d, e \in Dispatches :
        /\ d < e
        /\ target[d] = BlockedTarget
        /\ Job(d) \in running
        /\ target[e] # BlockedTarget
        /\ pc[e] = "done"

\* C11: a step changes the timestamp attribute of a target only if it is the
\* assignment of __set_state in a dispatch to that target, made before the
\* send of that dispatch is submitted, and the new value is the argument of
\* that __set_state; the start and the end of a send, the end of a dispatch,
\* calls (resolved or refused) and the steps of dispatches to other targets
\* leave it as it is.
C11_LastChangedOnlyByStamp ==
    [][\A i \in Ids :
        last'[i] # last[i] =>
            \E d \in Dispatches :
                /\ target[d] = i
                /\ pc[d] = "assign"
                /\ pc'[d] = "write"
                /\ last'[i] = stateArg[d]
                /\ future[d] = "none"
                /\ sent[d] = <<>>]_vars

\* C11 happens: a target stamped at clock 0 has seen its send fail and its
\* dispatch end, a later dispatch to the other target has been stamped at a
\* later clock and has ended, and the first target still holds its stamp.
C11_Witness ==
    \E d, e \in Dispatches :
        /\ d < e
        /\ target[d] # target[e]
        /\ pc[d] = "raised"
        /\ pc[e] = "done"
        /\ callTime[d] < callTime[e]
        /\ last[target[d]] = stateArg[d]
        /\ last[target[e]] = stateArg[e]

\* C12: a caller that awaits completion is told SendFailure exactly when the
\* send of its own dispatch raised, and ok exactly when it returned: it is
\* never told ok for a send that raised.  SendFailure is told to no caller
\* that did not await and to no caller whose own send did not raise, and the
\* step that reports it changes what no other caller has been told.
C12_FailureSurfacedToAwaiter ==
    /\ [](\A d \in Dispatches :
            /\ (awaited[d] /\ pc[d] = "raised")
                   => (ret[d] = "SendFailure" /\ future[d] = "raised")
            /\ (awaited[d] /\ pc[d] = "done")
                   => (ret[d] = "ok" /\ future[d] = "ok")
            /\ ret[d] = "ok" => (awaited[d] /\ future[d] = "ok")
            /\ ret[d] = "SendFailure" => (awaited[d] /\ future[d] = "raised"))
    /\ [][\A d \in Dispatches :
            (ret[d] # "SendFailure" /\ ret'[d] = "SendFailure") =>
                \A e \in Dispatches \ {d} : ret'[e] = ret[e]]_vars

\* C12 happens: two callers await dispatches to the same target; the send of
\* one raised and that caller is told SendFailure, the send of the other
\* returned and that caller is told ok.
C12_Witness ==
    \E d, e \in Dispatches :
        /\ d # e
        /\ target[d] = target[e]
        /\ awaited[d] /\ awaited[e]
        /\ ret[d] = "SendFailure"
        /\ ret[e] = "ok"

\* The job of a dispatch is on the executor's queue.
Queued(d) == \E k \in 1 .. Len(queue) : queue[k] = Job(d)

\* C13: when the deadline of an awaiting caller expires, the caller is told
\* DeadlineExpired and stays told so; the step takes nothing from the
\* executor and changes no entity state; afterwards the send of that
\* dispatch is still queued, running or over, a running one can still return
\* or raise, a queued one is started once it heads the queue and a worker is
\* free, and it is made exactly once by the time it is over; the stamp of the
\* dispatch stays the state of its target until a later dispatch to it starts.
C13_SendOutlivesDeadline ==
    /\ [](\A d \in Dispatches :
            pc[d] = "cancelled" =>
                /\ ret[d] = "DeadlineExpired"
                /\ Queued(d) \/ Job(d) \in running \/ future[d] \in {"ok", "raised"}
                /\ Job(d) \in running =>
                       (ENABLED FinishSend(Job(d), "ok")
                        /\ ENABLED FinishSend(Job(d), "raised"))
                /\ (queue # <<>> /\ Head(queue) = Job(d)
                        /\ Cardinality(running) < PoolSize) => ENABLED StartSend
                /\ future[d] \in {"ok", "raised"} => Len(sent[d]) = 1
                /\ (live[d] /\ ~Overtaken(d)) =>
                       /\ last[target[d]] = stateArg[d]
                       /\ published[target[d]] = stateArg[d])
    /\ [][\A d \in Dispatches :
            /\ (pc[d] = "await" /\ pc'[d] = "cancelled") =>
                   /\ <<future, queue, running, sent>>' = <<future, queue, running, sent>>
                   /\ <<last, cache, published>>' = <<last, cache, published>>
            /\ pc[d] = "cancelled" =>
                   (pc'[d] = "cancelled" /\ ret'[d] = "DeadlineExpired")]_vars

\* C13 happens: a caller gave up its await, and afterwards the send of that
\* dispatch was made and raised on its own; the stamp of the dispatch is still
\* the published state.
C13_Witness ==
    \E d \in Dispatches :
        /\ pc[d] = "cancelled"
        /\ future[d] = "raised"
        /\ Len(sent[d]) = 1
        /\ callTime[d] > 0
        /\ published[target[d]] = stateArg[d]

\* How often the entity object g of an identity has been torn down.
TimesTorn(i, g) == Cardinality({k \in 1 .. Len(torn[i]) : torn[i][k] = g})

\* The entity objects of an identity that were added and not torn down.
LiveEntities(i) == {g \in 1 .. gen[i] : TimesTorn(i, g) = 0}

\* C14: a call for an identity that is registered resolves the entity added
\* last under it, which has not been removed; a call for an identity that is
\* not registered (never added, or removed since) is answered TargetNotFound,
\* resolves no entity, and changes no entity state and nothing of the
\* executor; every stamp is made on the entity now registered under the
\* identity, and a refused call never has a send.
C14_ResolvesLatestRegistered ==
    /\ [](\A d \in Dispatches :
            pc[d] = "notfound" =>
                (ent[d] = 0 /\ sent[d] = <<>> /\ future[d] = "none"))
    /\ [][\A d \in Dispatches :
            /\ (pc[d] = "idle" /\ pc'[d] # "idle") =>
                   IF target'[d] \in registry
                   THEN /\ pc'[d] = "assign"
                        /\ ent'[d] = gen[target'[d]]
                        /\ TimesTorn(target'[d], ent'[d]) = 0
                   ELSE /\ pc'[d] = "notfound"
                        /\ ret'[d] = "TargetNotFound"
                        /\ ent'[d] = 0
                        /\ <<last, cache, published>>' = <<last, cache, published>>
                        /\ <<future, queue, running, sent>>' = <<future, queue, running, sent>>
            /\ (pc[d] = "assign" /\ pc'[d] = "write") =>
                   /\ target[d] \in registry
                   /\ ent[d] = gen[target[d]]
                   /\ TimesTorn(target[d], ent[d]) = 0]_vars

\* C14 happens: an identity was registered, removed, called (and the call
\* refused), registered again and called again: the second call resolved the
\* second entity, stamped it and had its send made.
C14_Witness ==
    \E d, e \in Dispatches :
        /\ d < e
        /\ target[d] = target[e]
        /\ pc[d] = "notfound"
        /\ torn[target[e]] = <<1>>
        /\ ent[e] = 2
        /\ Len(sent[e]) = 1
        /\ published[target[e]] = stateArg[e]

\* C15: of the entity objects added under an identity at most one is not torn
\* down, it is the one added last, and there is one exactly when the identity
\* is registered; no object is torn down twice and every object but the last
\* has been torn down once; a step that adds an entity under a registered
\* identity tears down the one in place (and only that one), leaves the
\* identity registered, and the new entity starts without a timestamp.
C15_DuplicateReplaces ==
    /\ [](\A i \in Ids :
            /\ Cardinality(LiveEntities(i)) <= 1
            /\ i \in registry <=> LiveEntities(i) = {gen[i]}
            /\ i \notin registry <=> LiveEntities(i) = {}
            /\ \A g \in 1 .. gen[i] :
                   /\ TimesTorn(i, g) <= 1
                   /\ g < gen[i] => TimesTorn(i, g) = 1)
    /\ [][\A i \in Ids :
            (i \in registry /\ gen'[i] # gen[i]) =>
                /\ i \in registry'
                /\ gen'[i] = gen[i] + 1
                /\ torn'[i] = Append(torn[i], gen[i])
                /\ TimesTorn(i, gen[i]) = 0
                /\ published'[i] = None
                /\ last'[i] = None]_vars

\* C15 happens: a second entity was added under an identity while the send of
\* a dispatch to the first was running; the first has been torn down once,
\* the identity is registered, and a later call resolved the second entity.
C15_Witness ==
    \E d, e \in Dispatches :
        /\ target[d] = target[e]
        /\ target[d] \in registry
        /\ gen[target[d]] = 2
        /\ torn[target[d]] = <<1>>
        /\ ent[d] = 1
        /\ Job(d) \in running
        /\ ent[e] = 2
        /\ pc[e] = "await"

\* C16: nothing of one dispatch holds up another, to the same target or not:
\* a dispatch on the event loop can always take its next statement (stamp,
\* publish, submit), whatever sends are running; while the event loop is
\* between callbacks a new call to any registered target can start,
\* whatever sends are running; and a free worker can always take the oldest
\* queued send, also when a send of the same target is running.
C16_NotSerialized ==
    /\ \A d \in Dispatches :
        /\ pc[d] = "assign" => ENABLED SetStateAssign(d)
        /\ pc[d] = "write" => ENABLED WriteState(d)
        /\ pc[d] = "submit" => ENABLED Submit(d)
        /\ (/\ pc[d] = "idle"
            /\ IF d = 1 THEN TRUE ELSE pc[d - 1] # "idle"
            /\ \A e \in Dispatches : pc[e] \notin LoopPcs) =>
               \A i \in registry :
                   ENABLED Call(d, i, [message |-> "hi", title |-> "None"], FALSE, now)
    /\ (queue # <<>> /\ Cardinality(running) < PoolSize) => ENABLED StartSend

\* C16 happens: two dispatches to one target, the second called and stamped
\* at a later clock, have their sends running at the same time.
C16_Witness ==
    \E d, e \in Dispatches :
        /\ d < e
        /\ target[d] = target[e]
        /\ Job(d) \in running
        /\ Job(e) \in running
        /\ callTime[d] < callTime[e]
        /\ last[target[e]] = stateArg[e]

\* C17: of two dispatches to one target the one called first is stamped
\* first and submitted first, and its stamp is not the later one; but while
\* both sends are running either may end first, with either outcome.
C17_CompletionOrderFree ==
    \A d, e \in Dispatches :
        (d < e /\ target[d] = target[e] /\ live[d] /\ live[e]) =>
            /\ Stamped(e) => Stamped(d)
            /\ Submitted(e) => Submitted(d)
            /\ fromisoformat(stateArg[d]) <= fromisoformat(stateArg[e])
            /\ (Job(d) \in running /\ Job(e) \in running) =>
                   /\ ENABLED FinishSend(Job(e), "ok")
                   /\ ENABLED FinishSend(Job(e), "raised")
                   /\ ENABLED FinishSend(Job(d), "ok")
                   /\ ENABLED FinishSend(Job(d), "raised")

\* C17 happens: the send of the dispatch called second has returned and its
\* dispatch has ended, while the send of the dispatch called first, to the
\* same target and stamped at an earlier clock, is still running.
C17_Witness ==
    \E d, e \in Dispatches :
        /\ d < e
        /\ target[d] = target[e]
        /\ callTime[d] < callTime[e]
        /\ Job(d) \in running
        /\ future[d] = "pending"
        /\ future[e] = "ok"
        /\ pc[e] = "done"
        /\ published[target[e]] = stateArg[e]

\* C18: whenever no dispatch is inside __set_state on an entity (between its
\* del and its assignment), a read of the entity's state property gives the
\* value the last __set_state assigned: the cache never holds another value.
C18_StateNeverStale ==
    \A i \in registry :
        (\A d \in Dispatches : ~(target[d] = i /\ pc[d] = "assign")) =>
            state(i) = last[i]

\* C19: the flow never holds another result than the 'user' form: no config
\* entry is created and the flow is not aborted, however often the step is
\* called; a step without input returns the form at once, touching neither
\* the host nor a connection; a step with input stores the host and is inside
\* setup() until the websocket run loop has ended, and only then returns, the
\* 'user' form again.
C19_UserStepNeverCompletes ==
    /\ [](/\ flowResult \in {"none", "form_user"}
          /\ (flowPc = "setup" /\ ws # "closed") => ~ENABLED StepReturn
          /\ flowPc = "setup" => (flowHost \in Hosts /\ ws # "none")
          /\ nSteps > 0 => (flowPc = "setup" \/ flowResult = "form_user"))
    /\ [][/\ (flowPc = "setup" /\ flowPc' = "waiting") =>
                (ws = "closed" /\ flowResult' = "form_user")
          /\ (nSteps' # nSteps /\ flowPc' = "waiting") =>
                /\ flowResult' = "form_user"
                /\ <<flowHost, ws, hello>>' = <<flowHost, ws, hello>>
          /\ (nSteps' # nSteps /\ flowPc' = "setup") =>
                (flowHost' \in Hosts /\ ws' = "connecting")]_vars

\* C19 happens: the step was called without input and then twice with a
\* host; both connections were opened and ended, both steps returned, and the
\* flow shows the 'user' form.
C19_Witness ==
    /\ nSteps = 3
    /\ hello = 2
    /\ flowHost \in Hosts
    /\ flowPc = "waiting"
    /\ ws = "none"
    /\ flowResult = "form_user"

====
